---- MODULE Spec2Model ----
(***************************************************************************)
(* A model of goleptjson (src/leptjson.go): the parser entry LeptParse,    *)
(* its sub-parsers for literals, numbers and strings, and the typed        *)
(* accessors of LeptValue.                                                 *)
(*                                                                         *)
(* Text is a sequence of bytes (naturals 0..255).  Go's 0-based index      *)
(* s[i] is s[i+1] here and the slice s[i:] is Slice(s, i).  A Go panic     *)
(* (the panics of expect, an index out of range, an accessor's panic) is   *)
(* an outcome of its own, carried in the field "panic" ("" when none).     *)
(***************************************************************************)
EXTENDS Integers, Sequences, FiniteSets, TLC

\* ------------------------------------------------------------------------
\* Bounds of the model
\* ------------------------------------------------------------------------
MaxLitTokens == 4
MaxNumTokens == 5
MaxFracTokens == 4
MaxStrTokens == 4
MaxArrTokens == 4
MaxApiCalls == 3

\* ------------------------------------------------------------------------
\* Program constants: the result codes, the types, the bytes the code names
\* ------------------------------------------------------------------------
LeptParseOK == 0
LeptParseExpectValue == 1
LeptParseInvalidValue == 2
LeptParseRootNotSingular == 3
LeptParseNumberTooBig == 4
LeptParseMissQuotationMark == 5
LeptParseInvalidStringEscape == 6
LeptParseInvalidStringChar == 7

LeptNULL == 0
LeptFALSE == 1
LeptTRUE == 2
LeptNUMBER == 3
LeptSTRING == 4
LeptARRAY == 5
LeptOBJECT == 6

ChSpace == 32
ChTab == 9
ChLF == 10
ChCR == 13
ChBS == 8
ChFF == 12
ChQuote == 34
ChBackslash == 92
ChSlash == 47
ChMinus == 45
ChPlus == 43
ChDot == 46
Ch0 == 48
Ch1 == 49
Ch9 == 57
Ch_a == 97
Ch_b == 98
Ch_e == 101
Ch_E == 69
Ch_f == 102
Ch_l == 108
Ch_n == 110
Ch_r == 114
Ch_s == 115
Ch_t == 116
Ch_u == 117
ControlLimit == 32

\* ------------------------------------------------------------------------
\* Go slices and the values of the program
\* ------------------------------------------------------------------------
\* s[i:] of Go, for 0 <= i <= len(s)
Slice(s, i) == SubSeq(s, i + 1, Len(s))

\* s[:i] of Go, for 0 <= i <= len(s)
Prefix(s, i) == SubSeq(s, 1, i)

\* A Go int that strconv.Atoi produced is kept exactly, as its sign and its
\* decimal digits without leading zeros (<<0>> for zero): no width of the
\* checker's own integers limits it.
GoInt(neg, digits) == [neg |-> neg, digits |-> digits]

IntZero == GoInt(FALSE, <<0>>)

\* -exp
NegInt(i) == IF i.digits = <<0>> THEN i ELSE GoInt(~i.neg, i.digits)

\* An int built by repeated multiplication (frac of strtod) is kept as the four
\* 16-bit limbs of its 64-bit two's complement, least significant first.
LimbBase == 2 ^ 16

IntOne64 == <<1, 0, 0, 0>>

\* frac *= 10, wrapping at 64 bits as Go's int does
Times10(x) ==
    LET p0 == x[1] * 10
        p1 == x[2] * 10 + (p0 \div LimbBase)
        p2 == x[3] * 10 + (p1 \div LimbBase)
        p3 == x[4] * 10 + (p2 \div LimbBase)
    IN  <<p0 % LimbBase, p1 % LimbBase, p2 % LimbBase, p3 % LimbBase>>

\* A float64 is kept as the exact expression strtod builds:
\* (-1)^neg * (float64(integer) + float64(decimal) / float64(frac)) * Pow10(exp).
Float(neg, integer, decimal, frac, exp) ==
    [neg |-> neg, integer |-> integer, decimal |-> decimal, frac |-> frac, exp |-> exp]

\* float64(i) of an int
FloatOfInt(i) == Float(FALSE, i, IntZero, IntOne64, IntZero)

\* -ret
Negate(x) == [x EXCEPT !.neg = ~x.neg]

\* the zero value of float64
FloatZero == FloatOfInt(IntZero)

\* type LeptValue struct { typ; n; s }
Value(typ, n, s) == [typ |-> typ, n |-> n, s |-> s]

NewLeptValue == Value(LeptFALSE, FloatZero, <<>>)

\* What a parser leaves behind: the panic raised ("" when it returned), the
\* code it returned, the cursor text c.json and the value v.
Outcome(panic, ret, json, v) == [panic |-> panic, ret |-> ret, json |-> json, v |-> v]

Panic(why, json, v) == Outcome(why, LeptParseOK, json, v)

Return(ret, json, v) == Outcome("", ret, json, v)

\* ------------------------------------------------------------------------
\* Cursor
\* ------------------------------------------------------------------------
expect(json, ch) ==
    IF Len(json) = 0 THEN [panic |-> "ErrReachEnd", json |-> json]
    ELSE IF json[1] # ch THEN [panic |-> "ErrUnexpectChar", json |-> json]
    ELSE [panic |-> "", json |-> Slice(json, 1)]

isWhitespace(ch) == ch = ChSpace \/ ch = ChTab \/ ch = ChLF \/ ch = ChCR

RECURSIVE wsRun(_, _)
\* the loop of LeptParseWhitespace: the first index >= i that holds no whitespace
wsRun(json, i) ==
    IF i < Len(json) /\ isWhitespace(json[i + 1]) THEN wsRun(json, i + 1) ELSE i

LeptParseWhitespace(json) == Slice(json, wsRun(json, 0))

\* ------------------------------------------------------------------------
\* Literals
\* ------------------------------------------------------------------------
LeptParseNull(json, v) ==
    LET e == expect(json, Ch_n)
        c == e.json
        want == 4
    IN  IF e.panic # "" THEN Panic(e.panic, c, v)
        ELSE IF Len(c) < want - 1 THEN Return(LeptParseInvalidValue, c, v)
        ELSE IF c[1] # Ch_u \/ c[2] # Ch_l \/ c[3] # Ch_l
             THEN Return(LeptParseInvalidValue, c, v)
        ELSE Return(LeptParseOK, Slice(c, want - 1), [v EXCEPT !.typ = LeptNULL])

LeptParseTrue(json, v) ==
    LET e == expect(json, Ch_t)
        c == e.json
        want == 4
    IN  IF e.panic # "" THEN Panic(e.panic, c, v)
        ELSE IF Len(c) < want - 1 THEN Return(LeptParseInvalidValue, c, v)
        ELSE IF c[1] # Ch_r \/ c[2] # Ch_u \/ c[3] # Ch_e
             THEN Return(LeptParseInvalidValue, c, v)
        ELSE Return(LeptParseOK, Slice(c, want - 1), [v EXCEPT !.typ = LeptTRUE])

LeptParseFalse(json, v) ==
    LET e == expect(json, Ch_f)
        c == e.json
        want == 5
    IN  IF e.panic # "" THEN Panic(e.panic, c, v)
        ELSE IF Len(c) < want - 1 THEN Return(LeptParseInvalidValue, c, v)
        ELSE IF c[1] # Ch_a \/ c[2] # Ch_l \/ c[3] # Ch_s \/ c[4] # Ch_e
             THEN Return(LeptParseInvalidValue, c, v)
        ELSE Return(LeptParseOK, Slice(c, want - 1), [v EXCEPT !.typ = LeptFALSE])

\* ------------------------------------------------------------------------
\* Numbers
\* ------------------------------------------------------------------------
isDigit(ch) == ch >= Ch0 /\ ch <= Ch9

RECURSIVE digitRun(_, _)
\* the loop of parseInteger: the first index >= i that holds no digit
digitRun(input, i) ==
    IF i < Len(input) /\ isDigit(input[i + 1]) THEN digitRun(input, i + 1) ELSE i

RECURSIVE stripZeros(_)
stripZeros(ds) ==
    IF Len(ds) > 1 /\ ds[1] = 0 THEN stripZeros(Tail(ds)) ELSE ds

\* the decimal digits of math.MaxInt64, 9223372036854775807
MaxInt64Digits == <<9, 2, 2, 3, 3, 7, 2, 0, 3, 6, 8, 5, 4, 7, 7, 5, 8, 0, 7>>

RECURSIVE digitsLeq(_, _)
\* a <= b for digit sequences of one length
digitsLeq(a, b) ==
    IF Len(a) = 0 THEN TRUE
    ELSE IF a[1] # b[1] THEN a[1] < b[1]
    ELSE digitsLeq(Tail(a), Tail(b))

\* the range check of strconv.Atoi on the digits ds (no leading zeros)
atoiRange(ds) ==
    IF Len(ds) > Len(MaxInt64Digits)
       \/ (Len(ds) = Len(MaxInt64Digits) /\ ~digitsLeq(ds, MaxInt64Digits))
    THEN [err |-> TRUE, val |-> IntZero]
    ELSE [err |-> FALSE, val |-> GoInt(FALSE, ds)]

\* strconv.Atoi on a run of digits: a syntax error on the empty text, a range
\* error above math.MaxInt64, else the int
Atoi(s) ==
    IF Len(s) = 0 THEN [err |-> TRUE, val |-> IntZero]
    ELSE atoiRange(stripZeros([k \in 1..Len(s) |-> s[k] - Ch0]))

\* What parseInteger, parseFrac and parseExp return: (string, int, error), or
\* the panic raised.
Parsed3(panic, err, rest, val) == [panic |-> panic, err |-> err, rest |-> rest, val |-> val]

Failed3 == Parsed3("", TRUE, <<>>, IntZero)

IndexPanic == Parsed3("index out of range", FALSE, <<>>, IntZero)

\* parseInteger once strconv.Atoi has answered a for input[:i]
integerResult(input, i, a) ==
    IF a.err THEN Failed3 ELSE Parsed3("", FALSE, Slice(input, i), a.val)

parseIntegerAt(input, i) == integerResult(input, i, Atoi(Prefix(input, i)))

parseInteger(input) == parseIntegerAt(input, digitRun(input, 0))

parseFrac(input) ==
    IF Len(input) = 0 THEN IndexPanic
    ELSE IF input[1] = ChDot THEN parseInteger(Slice(input, 1))
    ELSE Failed3

\* parseExp once parseInteger has answered p for the digits of the exponent
expResult(expNeg, p) ==
    IF p.err THEN Failed3
    ELSE IF expNeg THEN [p EXCEPT !.val = NegInt(p.val)]
    ELSE p

\* parseExp without its "len(input) == 1" check: input[1] is read past the end
parseExpNoLengthCheck(input) ==
    IF Len(input) = 0 THEN IndexPanic
    ELSE IF input[1] = Ch_e \/ input[1] = Ch_E
    THEN IF Len(input) = 1 THEN IndexPanic
         ELSE IF input[2] = ChMinus \/ input[2] = ChPlus
         THEN expResult(input[2] = ChMinus, parseInteger(Slice(input, 2)))
         ELSE expResult(FALSE, parseInteger(Slice(input, 1)))
    ELSE Failed3

parseExp(input) ==
    IF Len(input) = 0 THEN IndexPanic
    ELSE IF input[1] = Ch_e \/ input[1] = Ch_E
    THEN IF Len(input) = 1 THEN Failed3
         ELSE IF input[2] = ChMinus \/ input[2] = ChPlus
         THEN expResult(input[2] = ChMinus, parseInteger(Slice(input, 2)))
         ELSE expResult(FALSE, parseInteger(Slice(input, 1)))
    ELSE Failed3

RECURSIVE fracScale(_, _)
\* the loop "for j := n - 1; j > len(input); j-- { frac *= 10 }" from frac on
fracScale(frac, steps) ==
    IF steps <= 0 THEN frac ELSE fracScale(Times10(frac), steps - 1)

\* What strtod returns: (float64, string, error), or the panic it raised.
StrtodResult(panic, val, end, err) == [panic |-> panic, val |-> val, end |-> end, err |-> err]

\* "if neg { return -ret, "", nil }; return ret, "", nil"
strtodDone(neg, ret) == StrtodResult("", IF neg THEN Negate(ret) ELSE ret, <<>>, FALSE)

\* "return ret, "", IllegalInput" and "return ret, "", err"
strtodIllegal(ret) == StrtodResult("", ret, <<>>, TRUE)

\* ret *= float64(math.Pow10(exp))
TimesPow10(ret, exp) == [ret EXCEPT !.exp = exp]

\* ret += float64(decimal) / float64(frac)
PlusFraction(ret, decimal, frac) == [ret EXCEPT !.decimal = decimal, !.frac = frac]

\* strtod after the exponent that follows a fraction (lines 255-264): parseExp
\* has answered x
strtodFracExp(neg, ret, x) ==
    IF x.panic # "" THEN StrtodResult(x.panic, ret, <<>>, FALSE)
    ELSE IF x.err \/ Len(x.rest) # 0 THEN strtodIllegal(ret)
    ELSE strtodDone(neg, TimesPow10(ret, x.val))

\* strtod after the fraction has been added (lines 245-255): input is what
\* follows the fraction
strtodAfterFrac(neg, ret, input) ==
    IF Len(input) = 0 THEN strtodDone(neg, ret)
    ELSE IF ~(input[1] = Ch_e \/ input[1] = Ch_E) THEN strtodIllegal(ret)
    ELSE strtodFracExp(neg, ret, parseExp(input))

\* strtod on a fraction (lines 234-244): parseFrac has answered f on a text
\* of length n
strtodFrac(neg, ret, n, f) ==
    IF f.panic # "" THEN StrtodResult(f.panic, ret, <<>>, FALSE)
    ELSE IF f.err THEN strtodIllegal(ret)
    ELSE strtodAfterFrac(neg,
             PlusFraction(ret, f.val, fracScale(IntOne64, (n - 1) - Len(f.rest))),
             f.rest)

\* strtod on an exponent with no fraction (lines 265-280): parseExp has
\* answered x
strtodExp(neg, ret, x) ==
    IF x.panic # "" THEN StrtodResult(x.panic, ret, <<>>, FALSE)
    ELSE IF x.err THEN strtodIllegal(ret)
    ELSE IF Len(x.rest) # 0 THEN strtodIllegal(ret)
    ELSE strtodDone(neg, TimesPow10(ret, x.val))

\* strtod from "frac or exp" on (lines 232-284): input, the text after the
\* integer part, is not empty
strtodFracOrExp(neg, input, ret) ==
    IF input[1] = ChDot THEN strtodFrac(neg, ret, Len(input), parseFrac(input))
    ELSE IF input[1] = Ch_e \/ input[1] = Ch_E THEN strtodExp(neg, ret, parseExp(input))
    ELSE strtodIllegal(ret)

\* strtod once parseInteger has answered p for the integer part (lines 220-231)
strtodInteger(neg, p) ==
    IF p.err THEN strtodIllegal(FloatZero)
    ELSE IF Len(p.rest) <= 0 THEN strtodDone(neg, FloatOfInt(p.val))
    ELSE strtodFracOrExp(neg, p.rest, FloatOfInt(p.val))

\* strtod after the sign without its check of a leading zero (line 211)
strtodUnsignedNoZeroCheck(neg, input) ==
    IF Len(input) = 0 THEN strtodIllegal(FloatZero)
    ELSE IF input[1] = Ch0 /\ Len(input) = 1 THEN StrtodResult("", FloatZero, <<>>, FALSE)
    ELSE IF ~isDigit(input[1]) THEN strtodIllegal(FloatZero)
    ELSE strtodInteger(neg, parseInteger(input))

\* strtod after the sign (lines 195-219)
strtodUnsigned(neg, input) ==
    IF Len(input) = 0 THEN strtodIllegal(FloatZero)
    ELSE IF input[1] = Ch0 /\ Len(input) = 1 THEN StrtodResult("", FloatZero, <<>>, FALSE)
    ELSE IF input[1] = Ch0 /\ Len(input) > 1
            /\ ~(input[2] = ChDot \/ input[2] = Ch_e \/ input[2] = Ch_E)
         THEN strtodIllegal(FloatZero)
    ELSE IF ~isDigit(input[1]) THEN strtodIllegal(FloatZero)
    ELSE strtodInteger(neg, parseInteger(input))

strtod(input) ==
    IF Len(input) = 0 THEN StrtodResult("index out of range", FloatZero, <<>>, FALSE)
    ELSE IF input[1] = ChMinus THEN strtodUnsigned(TRUE, Slice(input, 1))
    ELSE strtodUnsigned(FALSE, input)

\* LeptParseNumber once strtod has answered r
numberResult(r, json, v) ==
    IF r.panic # "" THEN Panic(r.panic, json, v)
    ELSE IF r.err THEN Return(LeptParseInvalidValue, json, [v EXCEPT !.n = r.val])
    ELSE Return(LeptParseOK, r.end, [v EXCEPT !.n = r.val, !.typ = LeptNUMBER])

LeptParseNumber(json, v) == numberResult(strtod(json), json, v)

\* ------------------------------------------------------------------------
\* Accessors
\* ------------------------------------------------------------------------
LeptSetNull(v) == [v EXCEPT !.typ = LeptNULL]

LeptSetNumber(v, n) == [v EXCEPT !.n = n, !.typ = LeptNUMBER]

LeptSetBoolean(v, n) == [v EXCEPT !.typ = IF n = 0 THEN LeptFALSE ELSE LeptTRUE]

LeptSetString(v, s) == [v EXCEPT !.s = s, !.typ = LeptSTRING]

\* What a read accessor gives: the panic it raised ("" when it returned) and
\* the value it returned.
Got(panic, val) == [panic |-> panic, val |-> val]

LeptGetType(v) == Got("", v.typ)

LeptGetNumber(v) ==
    IF v.typ # LeptNUMBER
    THEN Got("LeptGetNumber v is nil or typ is not LeptNUMBER", 0)
    ELSE Got("", v.n)

LeptGetBoolean(v) ==
    IF ~(v.typ = LeptFALSE \/ v.typ = LeptTRUE)
    THEN Got("LeptGetBoolean v is nil or typ is not boolean", 0)
    ELSE IF v.typ = LeptFALSE THEN Got("", 0)
    ELSE Got("", 1)

LeptGetStringLength(v) ==
    IF v.typ # LeptSTRING
    THEN Got("LeptGetStringLength v is nil or typ is not string", 0)
    ELSE Got("", Len(v.s))

LeptGetString(v) ==
    IF v.typ # LeptSTRING
    THEN Got("LeptGetString v is nil or typ is not string", 0)
    ELSE Got("", v.s)

\* ------------------------------------------------------------------------
\* Strings
\* ------------------------------------------------------------------------
\* the inner switch of LeptParseString: the characters that may follow '\'
EscapeChars == {ChQuote, ChBackslash, Ch_b, Ch_f, Ch_n, Ch_r, Ch_t, ChSlash}

\* the byte each of them writes to the buffer
EscapeByte(ch) ==
    CASE ch = ChQuote -> ChQuote
      [] ch = ChBackslash -> ChBackslash
      [] ch = Ch_b -> ChBS
      [] ch = Ch_f -> ChFF
      [] ch = Ch_n -> ChLF
      [] ch = Ch_r -> ChCR
      [] ch = Ch_t -> ChTab
      [] ch = ChSlash -> ChSlash

RECURSIVE stringLoopNoSkip(_, _, _, _)
\* the loop of LeptParseString without the "i++" that steps over the escaped
\* character (line 394)
stringLoopNoSkip(c, i, stack, v) ==
    LET n == Len(c) IN
    IF ~(i < n) THEN Return(LeptParseMissQuotationMark, c, v)
    ELSE LET ch == c[i + 1] IN
         IF ch = ChQuote
         THEN Return(LeptParseOK, Slice(c, i + 1), LeptSetString(v, stack))
         ELSE IF ch = ChBackslash
         THEN IF i + 1 >= n THEN Return(LeptParseInvalidStringEscape, c, v)
              ELSE IF c[i + 2] \in EscapeChars
              THEN stringLoopNoSkip(c, i + 1, Append(stack, EscapeByte(c[i + 2])), v)
              ELSE Return(LeptParseInvalidStringEscape, c, v)
         ELSE IF ch < ControlLimit THEN Return(LeptParseInvalidStringChar, c, v)
         ELSE stringLoopNoSkip(c, i + 1, Append(stack, ch), v)

RECURSIVE stringLoop(_, _, _, _)
\* the loop of LeptParseString from index i on, with the buffer "stack"
stringLoop(c, i, stack, v) ==
    LET n == Len(c) IN
    IF ~(i < n) THEN Return(LeptParseMissQuotationMark, c, v)
    ELSE LET ch == c[i + 1] IN
         IF ch = ChQuote
         THEN Return(LeptParseOK, Slice(c, i + 1), LeptSetString(v, stack))
         ELSE IF ch = ChBackslash
         THEN IF i + 1 >= n THEN Return(LeptParseInvalidStringEscape, c, v)
              ELSE IF c[i + 2] \in EscapeChars
              THEN stringLoop(c, i + 2, Append(stack, EscapeByte(c[i + 2])), v)
              ELSE Return(LeptParseInvalidStringEscape, c, v)
         ELSE IF ch < ControlLimit THEN Return(LeptParseInvalidStringChar, c, v)
         ELSE stringLoop(c, i + 1, Append(stack, ch), v)

LeptParseString(json, v) ==
    LET e == expect(json, ChQuote)
    IN  IF e.panic # "" THEN Panic(e.panic, e.json, v)
        ELSE stringLoop(e.json, 0, <<>>, v)

\* ------------------------------------------------------------------------
\* Value and entry point
\* ------------------------------------------------------------------------
LeptParseValue(json, v) ==
    IF Len(json) = 0 THEN Return(LeptParseExpectValue, json, v)
    ELSE CASE json[1] = Ch_n -> LeptParseNull(json, v)
           [] json[1] = Ch_t -> LeptParseTrue(json, v)
           [] json[1] = Ch_f -> LeptParseFalse(json, v)
           [] json[1] = ChQuote -> LeptParseString(json, v)
           [] OTHER -> LeptParseNumber(json, v)

\* LeptParse without "v.typ = LeptNULL" at its head
resetTypeSkipped(v) == v

\* "v.typ = LeptNULL" at the head of LeptParse
resetType(v) == [v EXCEPT !.typ = LeptNULL]

\* the end of LeptParse: rest is the cursor text after the second
\* LeptParseWhitespace
rootCheck(rest, v) ==
    IF Len(rest) # 0 THEN Return(LeptParseRootNotSingular, rest, v)
    ELSE Return(LeptParseOK, rest, v)

\* LeptParse once LeptParseValue has answered r
valueResult(r) ==
    IF r.panic # "" \/ r.ret # LeptParseOK THEN r
    ELSE rootCheck(LeptParseWhitespace(r.json), r.v)

LeptParse(v, json) ==
    valueResult(LeptParseValue(LeptParseWhitespace(json), resetType(v)))

\* ------------------------------------------------------------------------
\* The texts the calls are given: every run of at most Max..Tokens tokens of
\* one family
\* ------------------------------------------------------------------------
TokSpace == <<ChSpace>>
TokCRLF == <<ChCR, ChLF>>
TokTrue == <<Ch_t, Ch_r, Ch_u, Ch_e>>
TokFalse == <<Ch_f, Ch_a, Ch_l, Ch_s, Ch_e>>
TokNull == <<Ch_n, Ch_u, Ch_l, Ch_l>>
TokEuro == <<ChBackslash, Ch_u, 50, 48, 65, 67>>

LitTokens ==
    {TokSpace, TokCRLF, TokTrue, TokFalse, TokNull,
     <<Ch_t>>, <<Ch_n, Ch_u>>, <<Ch_f, Ch_a, Ch_l, Ch_s>>, <<Ch1>>}

NumTokens == {<<ChMinus>>, <<Ch0>>, <<Ch1>>, <<ChDot>>, <<Ch_e>>, <<Ch_E>>, <<ChPlus>>}

StrTokens ==
    {<<ChQuote>>, <<ChBackslash>>, <<Ch_n>>, <<Ch_u>>, <<Ch_a>>, <<ChTab>>, TokSpace, TokEuro}

ArrTokens == {<<91>>, <<93>>, <<44>>, <<Ch1>>, TokSpace}

\* nine zeros: two of them and one more digit make a fraction of 19 digits
TokZeros == <<Ch0, Ch0, Ch0, Ch0, Ch0, Ch0, Ch0, Ch0, Ch0>>

FracTokens == {<<Ch0, ChDot>>, <<Ch1, ChDot>>, TokZeros, <<Ch0>>, <<Ch1>>, <<Ch_e, Ch1>>}

RECURSIVE Flatten(_)
Flatten(toks) == IF Len(toks) = 0 THEN <<>> ELSE Head(toks) \o Flatten(Tail(toks))

\* A family of texts: <<the tokens, the most of them in one text>>
LitFamily == <<LitTokens, MaxLitTokens>>
NumFamily == <<NumTokens, MaxNumTokens>>
StrFamily == <<StrTokens, MaxStrTokens>>
ArrFamily == <<ArrTokens, MaxArrTokens>>
FracFamily == <<FracTokens, MaxFracTokens>>

Families == {LitFamily, NumFamily, StrFamily, ArrFamily}

\* text j is one of the family
InFamily(j, fam) == \E k \in 0..fam[2] : \E f \in [1..k -> fam[1]] : j = Flatten(f)

\* ------------------------------------------------------------------------
\* State
\* ------------------------------------------------------------------------
VARIABLES
    v,      \* the LeptValue the caller holds
    op,     \* the last call made
    json,   \* the text the last parser call was given
    c,      \* the cursor text (LeptContext.json) that call left
    ret,    \* the code it returned
    panic,  \* the panic the last call raised, "" when it returned
    got,    \* what the last read accessor returned
    pre,    \* v as it was before the last call
    calls,  \* the number of calls made that write v
    last    \* the payloads of the most recent calls that set each type:
            \* n of Number, s of String, b (0 or 1) of False or True

vars == <<v, op, json, c, ret, panic, got, pre, calls, last>>

ParseOps == {"LeptParse", "LeptParseNumber", "LeptParseString"}

Init ==
    /\ v = NewLeptValue
    /\ op = "NewLeptValue"
    /\ json = <<>>
    /\ c = <<>>
    /\ ret = LeptParseOK
    /\ panic = ""
    /\ got = 0
    /\ pre = NewLeptValue
    /\ calls = 0
    /\ last = [n |-> FloatZero, s |-> <<>>, b |-> 0]

\* the payloads on record once a call that assigned a value has left w
Recorded(w) ==
    CASE w.typ = LeptNUMBER -> [last EXCEPT !.n = w.n]
      [] w.typ = LeptSTRING -> [last EXCEPT !.s = w.s]
      [] w.typ = LeptTRUE -> [last EXCEPT !.b = 1]
      [] w.typ = LeptFALSE -> [last EXCEPT !.b = 0]
      [] OTHER -> last

\* a setter ran and left w; rec holds the payloads now on record
Written(name, w, rec) ==
    /\ v' = w
    /\ op' = name
    /\ panic' = ""
    /\ pre' = v
    /\ calls' = calls + 1
    /\ last' = rec
    /\ UNCHANGED <<json, c, ret, got>>

\* a parser ran on text j and left the outcome r; it assigned a value when it
\* read one to its end (it returned OK, or found text after the value)
Parsed(name, j, r) ==
    /\ v' = r.v
    /\ op' = name
    /\ json' = j
    /\ c' = r.json
    /\ ret' = r.ret
    /\ panic' = r.panic
    /\ pre' = v
    /\ calls' = calls + 1
    /\ last' = IF r.panic = "" /\ r.ret \in {LeptParseOK, LeptParseRootNotSingular}
               THEN Recorded(r.v)
               ELSE last
    /\ UNCHANGED got

\* a read accessor ran and gave g
Read(name, g) ==
    /\ op' = name
    /\ panic' = g.panic
    /\ got' = g.val
    /\ UNCHANGED <<v, json, c, ret, pre, calls, last>>

CallLeptSetNull(max) ==
    /\ calls < max
    /\ Written("LeptSetNull", LeptSetNull(v), last)

CallLeptSetNumber(max, ns) ==
    /\ calls < max
    /\ \E n \in ns : Written("LeptSetNumber", LeptSetNumber(v, n), [last EXCEPT !.n = n])

CallLeptSetBoolean(max, bs) ==
    /\ calls < max
    /\ \E n \in bs : Written("LeptSetBoolean", LeptSetBoolean(v, n),
                             [last EXCEPT !.b = IF n = 0 THEN 0 ELSE 1])

CallLeptSetString(max, ss) ==
    /\ calls < max
    /\ \E s \in ss : Written("LeptSetString", LeptSetString(v, s), [last EXCEPT !.s = s])

\* the texts of a family are enumerated token by token
CallLeptParse(max, fams) ==
    /\ calls < max
    /\ \E fam \in fams : \E k \in 0..fam[2] : \E f \in [1..k -> fam[1]] :
          LET j == Flatten(f) IN Parsed("LeptParse", j, LeptParse(v, j))

CallLeptParseNumber(max, fams) ==
    /\ calls < max
    /\ \E fam \in fams : \E k \in 0..fam[2] : \E f \in [1..k -> fam[1]] :
          LET j == Flatten(f) IN Parsed("LeptParseNumber", j, LeptParseNumber(j, v))

CallLeptParseString(max, fams) ==
    /\ calls < max
    /\ \E fam \in fams : \E k \in 0..fam[2] : \E f \in [1..k -> fam[1]] :
          LET j == Flatten(f) IN Parsed("LeptParseString", j, LeptParseString(j, v))

CallLeptGetNumber == Read("LeptGetNumber", LeptGetNumber(v))

CallLeptGetBoolean == Read("LeptGetBoolean", LeptGetBoolean(v))

CallLeptGetString == Read("LeptGetString", LeptGetString(v))

CallLeptGetStringLength == Read("LeptGetStringLength", LeptGetStringLength(v))

\* ------------------------------------------------------------------------
\* Spec: one parser call on any text, on a fresh value or on one a setter
\* has written
\* ------------------------------------------------------------------------
Five == Float(FALSE, GoInt(FALSE, <<5>>), IntZero, IntOne64, IntZero)

PrepareNumber == CallLeptSetNumber(1, {Five})

PrepareString == CallLeptSetString(1, {<<Ch_a>>})

ParseText == op \notin ParseOps /\ CallLeptParse(2, Families)

ParseNumberText == op \notin ParseOps /\ CallLeptParseNumber(2, {NumFamily, LitFamily})

ParseStringText == op \notin ParseOps /\ CallLeptParseString(2, {StrFamily})

ParseFractionText == op \notin ParseOps /\ CallLeptParse(2, {FracFamily})

Next ==
    \/ PrepareNumber
    \/ PrepareString
    \/ ParseText
    \/ ParseNumberText
    \/ ParseStringText
    \/ ParseFractionText

Spec == Init /\ [][Next]_vars

\* ------------------------------------------------------------------------
\* SpecAPI: any sequence of at most MaxApiCalls writing calls, each followed
\* by any reads
\* ------------------------------------------------------------------------
ApiNumbers == {Five, Negate(FloatOfInt(GoInt(FALSE, <<1>>)))}

ApiStrings == {<<>>, <<Ch_b, Ch_b>>}

ApiTokens ==
    {<<>>, <<Ch1>>, <<ChMinus, Ch1, ChDot, Ch1>>, <<Ch1, ChSpace>>, <<Ch1, ChDot>>,
     TokTrue, TokTrue \o TokSpace \o TokNull, TokFalse, TokNull, <<Ch_t>>,
     <<ChQuote, Ch_a, ChQuote>>, <<ChQuote, Ch_a>>,
     <<ChQuote, ChQuote, Ch1>>}

\* each text of the API runs is one of these whole
ApiFamily == <<ApiTokens, 1>>

NextAPI ==
    \/ CallLeptSetNull(MaxApiCalls)
    \/ CallLeptSetNumber(MaxApiCalls, ApiNumbers)
    \/ CallLeptSetBoolean(MaxApiCalls, {0, 1, 2})
    \/ CallLeptSetString(MaxApiCalls, ApiStrings)
    \/ CallLeptParse(MaxApiCalls, {ApiFamily})
    \/ CallLeptGetNumber
    \/ CallLeptGetBoolean
    \/ CallLeptGetString
    \/ CallLeptGetStringLength

SpecAPI == Init /\ [][NextAPI]_vars

\* ------------------------------------------------------------------------
\* What the claims speak of, stated apart from the parser: whitespace, the
\* number grammar, the decisive positions of a string
\* ------------------------------------------------------------------------
RefWhitespace == {ChSpace, ChTab, ChLF, ChCR}

RefDigit == Ch0..Ch9

RECURSIVE RefSkipWs(_)
\* s without its leading whitespace
RefSkipWs(s) ==
    IF Len(s) > 0 /\ s[1] \in RefWhitespace THEN RefSkipWs(Tail(s)) ELSE s

RECURSIVE RefDropWs(_)
\* s without its trailing whitespace
RefDropWs(s) ==
    IF Len(s) > 0 /\ s[Len(s)] \in RefWhitespace
    THEN RefDropWs(SubSeq(s, 1, Len(s) - 1))
    ELSE s

RefTrim(s) == RefDropWs(RefSkipWs(s))

\* s[i] exists and is one of set (i counts from 1)
RefAt(s, i, set) == i >= 1 /\ i <= Len(s) /\ s[i] \in set

RECURSIVE RefDigitsEnd(_, _)
\* the place of the last digit of the run of digits that starts at i (i - 1
\* when there is none)
RefDigitsEnd(s, i) == IF RefAt(s, i, RefDigit) THEN RefDigitsEnd(s, i + 1) ELSE i - 1

\* where the mantissa starts: after the optional "-"
RefIntStart(s) == IF RefAt(s, 1, {ChMinus}) THEN 2 ELSE 1

\* int = "0" / digit1-9 *digit: the place of its last character, 0 when s
\* does not begin with an int
RefIntEnd(s) ==
    IF RefAt(s, RefIntStart(s), {Ch0}) THEN RefIntStart(s)
    ELSE IF RefAt(s, RefIntStart(s), RefDigit) THEN RefDigitsEnd(s, RefIntStart(s))
    ELSE 0

\* frac = "." 1*digit after place e: the place of its last character, e when
\* no frac follows
RefFracEnd(s, e) ==
    IF RefAt(s, e + 1, {ChDot}) /\ RefAt(s, e + 2, RefDigit)
    THEN RefDigitsEnd(s, e + 2)
    ELSE e

\* where the digits of an exponent that starts after place e must start
RefExpDigits(s, e) == IF RefAt(s, e + 2, {ChPlus, ChMinus}) THEN e + 3 ELSE e + 2

\* exp = ("e" / "E") ["-" / "+"] 1*digit after place e
RefExpEnd(s, e) ==
    IF RefAt(s, e + 1, {Ch_e, Ch_E}) /\ RefAt(s, RefExpDigits(s, e), RefDigit)
    THEN RefDigitsEnd(s, RefExpDigits(s, e))
    ELSE e

\* the length of the longest number of the grammar that s begins with, 0 when
\* there is none
RefNumberLen(s) ==
    IF RefIntEnd(s) = 0 THEN 0 ELSE RefExpEnd(s, RefFracEnd(s, RefIntEnd(s)))

\* s starts as a number does and breaks the grammar in one of the four ways:
\* a leading 0 before another digit; no digit where the mantissa starts; a "."
\* with no digit after it; an exponent marker with no digit after its sign
RefMalformedNumber(s) ==
    /\ RefAt(s, 1, RefDigit \cup {ChMinus, ChPlus, ChDot})
    /\ \/ RefAt(s, RefIntStart(s), {Ch0}) /\ RefAt(s, RefIntStart(s) + 1, RefDigit)
       \/ ~RefAt(s, RefIntStart(s), RefDigit)
       \/ /\ RefIntEnd(s) > 0
          /\ RefAt(s, RefIntEnd(s) + 1, {ChDot})
          /\ ~RefAt(s, RefIntEnd(s) + 2, RefDigit)
       \/ /\ RefIntEnd(s) > 0
          /\ RefAt(s, RefFracEnd(s, RefIntEnd(s)) + 1, {Ch_e, Ch_E})
          /\ ~RefAt(s, RefExpDigits(s, RefFracEnd(s, RefIntEnd(s))), RefDigit)

\* s begins with the text lit
RefStartsWith(s, lit) == Len(s) >= Len(lit) /\ SubSeq(s, 1, Len(lit)) = lit

RECURSIVE RefPlainEnd(_, _)
\* the place of the closing quote of a string with no escape in it whose
\* characters start at i, 0 when there is none
RefPlainEnd(s, i) ==
    IF i > Len(s) THEN 0
    ELSE IF s[i] = ChQuote THEN i
    ELSE IF s[i] = ChBackslash \/ s[i] < ControlLimit THEN 0
    ELSE RefPlainEnd(s, i + 1)

\* the length of the complete value s begins with: a literal, a number of the
\* grammar, or a string with no escape in it; 0 when there is none
RefValueLen(s) ==
    IF RefStartsWith(s, TokTrue) THEN Len(TokTrue)
    ELSE IF RefStartsWith(s, TokFalse) THEN Len(TokFalse)
    ELSE IF RefStartsWith(s, TokNull) THEN Len(TokNull)
    ELSE IF RefAt(s, 1, {ChQuote}) THEN RefPlainEnd(s, 2)
    ELSE RefNumberLen(s)

\* the result codes the package defines
ResultCodes ==
    {LeptParseOK, LeptParseExpectValue, LeptParseInvalidValue, LeptParseRootNotSingular,
     LeptParseNumberTooBig, LeptParseMissQuotationMark, LeptParseInvalidStringEscape,
     LeptParseInvalidStringChar}

\* ------------------------------------------------------------------------
\* C1
\* ------------------------------------------------------------------------
\* the text after the value that the text j begins with, its whitespace skipped
RefTrailing(j) ==
    RefSkipWs(SubSeq(RefSkipWs(j), RefValueLen(RefSkipWs(j)) + 1, Len(RefSkipWs(j))))

\* C1 (as claimed): LeptParse on ws* V ws* T, V one complete value (literal,
\* number or string) and T not empty and not starting with whitespace, returns
\* RootNotSingular.  (Texts of C6's malformed numbers, such as 0123 = "0" then
\* "123", are left out: C6 claims InvalidValue for them.)
C1_TrailingIsRootNotSingular ==
    (/\ op = "LeptParse"
     /\ RefValueLen(RefSkipWs(json)) > 0
     /\ Len(RefTrailing(json)) > 0
     /\ ~RefMalformedNumber(RefSkipWs(json)))
    => (panic = "" /\ ret = LeptParseRootNotSingular)

\* ------------------------------------------------------------------------
\* C2
\* ------------------------------------------------------------------------
\* the results a and b hold one type and one payload
SameValue(a, b) ==
    /\ a.typ = b.typ
    /\ a.typ = LeptNUMBER => a.n = b.n
    /\ a.typ = LeptSTRING => a.s = b.s

\* C2 (as claimed): when LeptParse succeeds on a text s, it succeeds on s with
\* whitespace before and after it, with the same type and payload, numbers
\* included.  Here s is the text given less the whitespace around it.
C2_SurroundingWhitespaceIgnored ==
    (/\ op = "LeptParse"
     /\ LeptParse(pre, RefTrim(json)).panic = ""
     /\ LeptParse(pre, RefTrim(json)).ret = LeptParseOK)
    => (/\ panic = ""
        /\ ret = LeptParseOK
        /\ SameValue(v, LeptParse(pre, RefTrim(json)).v))

\* ------------------------------------------------------------------------
\* C3
\* ------------------------------------------------------------------------
\* C3 (as claimed): when LeptParse returns anything but LeptParseOK, the type
\* of the value is LeptNULL on return, whatever it was before.
C3_FailureLeavesNull ==
    (op = "LeptParse" /\ panic = "" /\ ret # LeptParseOK) => v.typ = LeptNULL

\* ------------------------------------------------------------------------
\* C4
\* ------------------------------------------------------------------------
\* C4: LeptParse on any text returns one code of the defined set and never
\* panics: neither expect's ErrReachEnd or ErrUnexpectChar nor an index out of
\* range is raised.
C4_LeptParseNeverPanics ==
    op = "LeptParse" => (panic = "" /\ ret \in ResultCodes)

\* C4's case: texts that end where a sub-parser is about to index: after the
\* "\" of an escape, after "e+" of an exponent, inside a literal.
C4_Witness ==
    /\ op = "LeptParse"
    /\ panic = ""
    /\ \/ json = <<ChQuote, ChBackslash>> /\ ret = LeptParseInvalidStringEscape
       \/ json = <<Ch1, Ch_e>> /\ ret = LeptParseInvalidValue
       \/ json = <<Ch_t>> /\ ret = LeptParseInvalidValue

\* ------------------------------------------------------------------------
\* C5
\* ------------------------------------------------------------------------
\* C5 (as claimed): LeptParseNumber on a cursor text that begins with a number
\* of the grammar returns OK, sets the type Number and leaves in the cursor
\* exactly the text after that number.
C5_NumberLeavesTheRest ==
    (op = "LeptParseNumber" /\ RefNumberLen(json) > 0)
    => (/\ panic = ""
        /\ ret = LeptParseOK
        /\ v.typ = LeptNUMBER
        /\ c = SubSeq(json, RefNumberLen(json) + 1, Len(json)))

\* ------------------------------------------------------------------------
\* C6
\* ------------------------------------------------------------------------
\* C6: LeptParse returns InvalidValue on every text that starts as a number
\* and breaks the grammar: a leading 0 before another digit, a bare "-" or a
\* mantissa with no digits, a "." with no digit after it, an exponent marker
\* with no digit after its optional sign.
C6_MalformedNumberIsInvalidValue ==
    (op = "LeptParse" /\ RefMalformedNumber(RefSkipWs(json)))
    => (panic = "" /\ ret = LeptParseInvalidValue)

\* C6's case: one text of each of the four kinds has been rejected.
C6_Witness ==
    /\ op = "LeptParse"
    /\ ret = LeptParseInvalidValue
    /\ json \in {<<Ch0, Ch1>>, <<ChMinus>>, <<Ch1, ChDot>>, <<Ch1, Ch_e, ChPlus>>}
    /\ RefMalformedNumber(json)

\* ------------------------------------------------------------------------
\* C7
\* ------------------------------------------------------------------------
\* the value of a hexadecimal digit, -1 for any other character
RefHexValue(ch) ==
    IF ch \in 48..57 THEN ch - 48
    ELSE IF ch \in 65..70 THEN ch - 55
    ELSE IF ch \in 97..102 THEN ch - 87
    ELSE -1

\* the four characters of s from place i on are hexadecimal digits
RefIsHex4(s, i) == \A k \in i..(i + 3) : RefHexValue(s[k]) >= 0

\* the number they write
RefHex4(s, i) ==
    RefHexValue(s[i]) * 4096 + RefHexValue(s[i + 1]) * 256
        + RefHexValue(s[i + 2]) * 16 + RefHexValue(s[i + 3])

\* the UTF-8 encoding of the code point u
RefUtf8(u) ==
    IF u < 128 THEN <<u>>
    ELSE IF u < 2048 THEN <<192 + (u \div 64), 128 + (u % 64)>>
    ELSE IF u < 65536
    THEN <<224 + (u \div 4096), 128 + ((u \div 64) % 64), 128 + (u % 64)>>
    ELSE <<240 + (u \div 262144), 128 + ((u \div 4096) % 64),
           128 + ((u \div 64) % 64), 128 + (u % 64)>>

RefSurrogates == 55296..57343

RefHighSurrogates == 55296..56319

RefLowSurrogates == 56320..57343

\* j is a string of one \uXXXX escape: "\uXXXX"
RefOneEscape(j) ==
    /\ Len(j) = 8
    /\ j[1] = ChQuote /\ j[2] = ChBackslash /\ j[3] = Ch_u /\ j[8] = ChQuote
    /\ RefIsHex4(j, 4)

\* j is a string of two \uXXXX escapes: "\uXXXX\uXXXX"
RefTwoEscapes(j) ==
    /\ Len(j) = 14
    /\ j[1] = ChQuote /\ j[2] = ChBackslash /\ j[3] = Ch_u
    /\ j[8] = ChBackslash /\ j[9] = Ch_u /\ j[14] = ChQuote
    /\ RefIsHex4(j, 4) /\ RefIsHex4(j, 10)

\* the code point of a surrogate pair
RefPair(hi, lo) == 65536 + (hi - 55296) * 1024 + (lo - 56320)

\* C7 (as claimed): a \uXXXX escape in a string is accepted and decoded: a code
\* point outside the surrogate range is appended in UTF-8 (€ gives E2 82
\* AC), a high surrogate followed by a \u low surrogate gives one code point
\* in four bytes, and a lone surrogate gives InvalidStringEscape.
C7_UnicodeEscapeDecoded ==
    op = "LeptParse" =>
        /\ (RefOneEscape(json) /\ RefHex4(json, 4) \notin RefSurrogates)
           => (/\ panic = ""
               /\ ret = LeptParseOK
               /\ v.typ = LeptSTRING
               /\ v.s = RefUtf8(RefHex4(json, 4)))
        /\ (RefOneEscape(json) /\ RefHex4(json, 4) \in RefSurrogates)
           => (panic = "" /\ ret = LeptParseInvalidStringEscape)
        /\ (/\ RefTwoEscapes(json)
            /\ RefHex4(json, 4) \in RefHighSurrogates
            /\ RefHex4(json, 10) \in RefLowSurrogates)
           => (/\ panic = ""
               /\ ret = LeptParseOK
               /\ v.typ = LeptSTRING
               /\ v.s = RefUtf8(RefPair(RefHex4(json, 4), RefHex4(json, 10))))

\* ------------------------------------------------------------------------
\* C8
\* ------------------------------------------------------------------------
\* the characters that may follow "\" in a string
RefEscapeSet == {ChQuote, ChBackslash, ChSlash, Ch_b, Ch_f, Ch_n, Ch_r, Ch_t, Ch_u}

RECURSIVE RefEscaped(_, _)
\* place i of the string body s is the character an unescaped "\" escapes
RefEscaped(s, i) == i > 1 /\ s[i - 1] = ChBackslash /\ ~RefEscaped(s, i - 1)

\* place i decides the outcome: an unescaped quote, a raw control character,
\* or a "\" before the end of the text or before a character it cannot escape
RefDecisive(s, i) ==
    /\ ~RefEscaped(s, i)
    /\ \/ s[i] = ChQuote
       \/ s[i] < ControlLimit
       \/ s[i] = ChBackslash /\ (i = Len(s) \/ s[i + 1] \notin RefEscapeSet)

\* the decisive places of s
RefDecisivePlaces(s) == {i \in 1..Len(s) : RefDecisive(s, i)}

\* the first of them (s has one)
RefFirstDecisive(s) ==
    CHOOSE i \in RefDecisivePlaces(s) : \A k \in RefDecisivePlaces(s) : i <= k

\* the part of s that is scanned: up to its first decisive place, all of it
\* when it has none
RefScanned(s) == IF RefDecisivePlaces(s) = {} THEN Len(s) ELSE RefFirstDecisive(s)

\* a \u escape stands in the scanned part of s (what it decodes to is C7's)
RefHasUnicodeEscape(s) ==
    \E i \in 1..(RefScanned(s) - 1) :
        ~RefEscaped(s, i) /\ s[i] = ChBackslash /\ s[i + 1] = Ch_u

\* the body of the string: the text after the opening quote
RefBody(j) == Tail(j)

RefArrayTexts ==
    {<<91, 93>>, <<91, Ch1, 93>>, <<91, Ch1, 44, Ch1, 93>>, <<91, ChSpace, 93>>}

\* C9 (as claimed): LeptParse on a text of the array grammar succeeds with an
\* Array value ("[]" an empty one), and a trailing comma before "]" is
\* rejected.
C9_ArrayParsed ==
    op = "LeptParse" =>
        /\ json \in RefArrayTexts => (panic = "" /\ ret = LeptParseOK /\ v.typ = LeptARRAY)
        /\ json = <<91, Ch1, 44, 93>> => (panic = "" /\ ret # LeptParseOK)

\* ------------------------------------------------------------------------
\* C10
\* ------------------------------------------------------------------------
\* C10: after any sequence of LeptParse and setter calls, a read accessor
\* panics exactly when the type of the value is not its variant, and otherwise
\* returns the payload of the most recent call that set that type.
C10_AccessorsGuardTheVariant ==
    /\ op = "LeptGetNumber" =>
          /\ panic # "" <=> v.typ # LeptNUMBER
          /\ panic = "" => got = last.n
    /\ op = "LeptGetBoolean" =>
          /\ panic # "" <=> v.typ \notin {LeptTRUE, LeptFALSE}
          /\ panic = "" => got = last.b
    /\ op = "LeptGetString" =>
          /\ panic # "" <=> v.typ # LeptSTRING
          /\ panic = "" => got = last.s
    /\ op = "LeptGetStringLength" =>
          /\ panic # "" <=> v.typ # LeptSTRING
          /\ panic = "" => got = Len(last.s)

\* C10's case: a number was set, a failed LeptParse followed, and after a
\* second LeptSetNumber LeptGetNumber returned the number set last.
C10_Witness ==
    /\ op = "LeptGetNumber"
    /\ panic = ""
    /\ calls = 3
    /\ json = <<Ch1, ChDot>>
    /\ ret = LeptParseInvalidValue
    /\ got = Five
    /\ v.n = Five

\* ------------------------------------------------------------------------
\* C11
\* ------------------------------------------------------------------------
RECURSIVE RefMulAdd(_, _, _)
\* x * m + a without any width: x is a natural number as its 16-bit limbs,
\* least significant first, as many as it needs (<<>> is zero)
RefMulAdd(x, m, a) ==
    IF Len(x) = 0 THEN (IF a = 0 THEN <<>> ELSE <<a>>)
    ELSE <<(x[1] * m + a) % LimbBase>>
             \o RefMulAdd(Tail(x), m, (x[1] * m + a) \div LimbBase)

RECURSIVE RefPow10(_)
\* 10^k without any width
RefPow10(k) == IF k = 0 THEN <<1>> ELSE RefMulAdd(RefPow10(k - 1), 10, 0)

RECURSIVE RefOfDigits(_)
\* the natural number of the decimal digits ds, without any width
RefOfDigits(ds) ==
    IF Len(ds) = 0 THEN <<>>
    ELSE RefMulAdd(RefOfDigits(SubSeq(ds, 1, Len(ds) - 1)), 10, ds[Len(ds)])

\* x is at most math.MaxInt64
RefFitsInt(x) == Len(x) < 4 \/ (Len(x) = 4 /\ x[4] < 2 ^ 15)

\* the four limbs of a number that fits
RefLimbs64(x) == [i \in 1..4 |-> IF i <= Len(x) THEN x[i] ELSE 0]

\* a 64-bit int, as its four limbs, is > 0
RefPositive64(l) == l[4] < 2 ^ 15 /\ l # <<0, 0, 0, 0>>

RECURSIVE RefLessFrom(_, _, _)
\* a < b for non-negative 64-bit ints, compared from limb i down
RefLessFrom(a, b, i) ==
    IF i = 0 THEN FALSE
    ELSE IF a[i] # b[i] THEN a[i] < b[i]
    ELSE RefLessFrom(a, b, i - 1)

\* the number of digits of the fraction of the number that s begins with, 0
\* when it has none
RefFracDigits(s) ==
    IF RefIntEnd(s) > 0 /\ RefAt(s, RefIntEnd(s) + 1, {ChDot})
    THEN RefDigitsEnd(s, RefIntEnd(s) + 2) - (RefIntEnd(s) + 1)
    ELSE 0

\* the scale l is 10^k held without wraparound, and the fraction digits d
\* over it lie in [0, 1)
RefExactScale(l, d, k) ==
    /\ RefFitsInt(RefPow10(k))
    /\ l = RefLimbs64(RefPow10(k))
    /\ RefPositive64(l)
    /\ RefLessFrom(RefLimbs64(RefOfDigits(d)), l, 4)

\* C11 (as claimed): whenever a number with a fraction of k >= 1 digits is
\* accepted, the int scale that divides the fraction digits is 10^k exactly,
\* not wrapped around: it is positive and the fraction lies in [0, 1).
C11_ScaleIsExactPowerOfTen ==
    (/\ op \in {"LeptParse", "LeptParseNumber"}
     /\ panic = ""
     /\ ret = LeptParseOK
     /\ RefFracDigits(RefSkipWs(json)) >= 1)
    => RefExactScale(v.n.frac, v.n.decimal.digits, RefFracDigits(RefSkipWs(json)))

====
